---------------------------- MODULE Spec2Model ----------------------------
(***************************************************************************)
(* A model of web-note-player: the sprite-range resolver                   *)
(* (getClosestSpriteNoteData) and the note scheduler                       *)
(* (webNotePlayerOn / webNotePlayerOff) with the module-level state they   *)
(* share.                                                                  *)
(*                                                                         *)
(* Conventions.                                                            *)
(*  - Times are integers in centiseconds (0.01 s): 0.05 s is 5, 0.3 s is   *)
(*    30, 1 s is 100.  Volumes are integers in hundredths: 0.6 is 60.      *)
(*  - A JavaScript value that may be `undefined` is a sequence of length   *)
(*    at most one: Undefined is << >>, a defined value v is <<v>>.         *)
(*  - A thrown exception is a result record with threw = TRUE.             *)
(***************************************************************************)
EXTENDS Integers, Sequences, FiniteSets, TLC

VARIABLES
    webNoteAudioContext,        \* "null" or "ctx"
    audioSpriteInstrumentsData, \* Undefined, or <<catalog>>
    audioSpriteBuffer,          \* "null" or "buffer"
    webNoteAudioBuffers,        \* uuid -> index into nodes
    nodes,                      \* the started AudioBufferSourceNode/GainNode pairs
    currentTime,                \* AudioContext.currentTime
    loader,                     \* position of initWebNotePlayer and of its promise
    listening,                  \* the two event listeners are attached
    readyEvents,                \* number of web-note-player-ready events dispatched
    console,                    \* what the last handler wrote to the console
    thrown,                     \* the last handler let an exception escape
    lastEvent,                  \* history: the last custom event handled
    resolved                    \* the last direct call of getClosestSpriteNoteData

vars == <<webNoteAudioContext, audioSpriteInstrumentsData, audioSpriteBuffer,
          webNoteAudioBuffers, nodes, currentTime, loader, listening,
          readyEvents, console, thrown, lastEvent, resolved>>

-----------------------------------------------------------------------------
(* JavaScript values *)

Undefined == << >>

Some(v) == <<v>>

Val(o) == o[1]

DefaultZero(arg, dflt) == IF arg = Undefined THEN Some(0) ELSE arg

\* A default parameter value applies when the argument is undefined.
Default(arg, dflt) == IF arg = Undefined THEN Some(dflt) ELSE arg

\* a > b on numbers, where a may be undefined: undefined > b is false.
Gt(a, b) == a # Undefined /\ Val(a) > b

Abs(x) == IF x < 0 THEN -x ELSE x

\* Both lookup tables of the program (the catalog and webNoteAudioBuffers) are
\* plain objects, read with obj?.[name].  For a name the object has no own
\* property of, the read yields what Object.prototype holds under that name:
\* undefined for most names, a function for these.  The function is not
\* undefined, is truthy, has no .gain and no .buffer, and has a .length
\* (toString takes no argument: its length is 0).
InheritedNames == {"toString"}

-----------------------------------------------------------------------------
(* Program constants *)

GAIN_TIME_CONSTANT == 5

EXTRA_NOTE_DURATION == 30

DefaultNoteDuration == 100

DefaultNoteVolume == 60

DefaultNoteDelay == 0

MinMidiNote == 0

MaxMidiNote == 127

-----------------------------------------------------------------------------
(* Bounds of the model *)

\* Longest descriptor array of a generated catalog.
MaxDescriptors == 3

\* Most notes started in one run.
MaxNotes == 1

\* Most notes started in one run of several voices.
MaxVoices == 2

\* Most advances of the audio clock in one run.
MaxTicks == 1

\* Centiseconds the audio clock advances by at once.
TickLength == 100

-----------------------------------------------------------------------------
(* Sprite data: AudioSpriteNoteData and AudioSpriteInstrumentsData *)

NoteData(m, s, e, start, dur, ls, le) ==
    [midiNoteNumber |-> m, midiNoteRangeStart |-> s, midiNoteRangeEnd |-> e,
     noteStart |-> start, noteDuration |-> dur, loopStart |-> ls, loopEnd |-> le]

\* The documented shape of an instrument's array: every entry a range, the
\* entries sorted by midiNoteRangeStart and not overlapping (gaps allowed).
SortedDisjoint(data) ==
    /\ \A i \in 1..Len(data) : data[i].midiNoteRangeStart <= data[i].midiNoteRangeEnd
    /\ \A i \in 1..(Len(data) - 1) :
          data[i].midiNoteRangeEnd < data[i + 1].midiNoteRangeStart

\* The range boundaries the generated catalogs are drawn from.
Boundaries == {0, 5, 43, 44, 83, 84, 120, 127}

RangeNoteData ==
    {NoteData(m, s, e, 10 * s, 200, Undefined, Undefined) :
        <<m, s, e>> \in {t \in Boundaries \X Boundaries \X Boundaries :
                            t[2] <= t[3] /\ t[1] \in {t[2], t[3]}}}

RECURSIVE ArraysOfLen(_)
ArraysOfLen(n) ==
    IF n = 0 THEN {<< >>}
    ELSE {Append(a, d) : <<a, d>> \in
            {p \in ArraysOfLen(n - 1) \X RangeNoteData :
                p[1] = << >> \/
                p[1][Len(p[1])].midiNoteRangeEnd < p[2].midiNoteRangeStart}}

ResolverArrays == UNION {ArraysOfLen(n) : n \in 0..MaxDescriptors}

ResolverCatalogs == {[guitar |-> a] : a \in ResolverArrays}

ResolverInstruments == {"guitar", "nonexistent", "toString"}

ResolverPitches == (MinMidiNote - 1)..(MaxMidiNote + 1)

\* The calls made: every pitch for the instrument of the catalog, one pitch
\* for the names whose lookup fails before the pitch is read.
ResolverRequests ==
    {r \in ResolverInstruments \X ResolverPitches : r[1] # "guitar" => r[2] = 63}

-----------------------------------------------------------------------------
(* getClosestSpriteNoteData *)

InRangeExclusiveEnd(currentNoteData, midiNoteNumber) ==
    /\ midiNoteNumber >= currentNoteData.midiNoteRangeStart
    /\ midiNoteNumber < currentNoteData.midiNoteRangeEnd

InRange(currentNoteData, midiNoteNumber) ==
    /\ midiNoteNumber >= currentNoteData.midiNoteRangeStart
    /\ midiNoteNumber <= currentNoteData.midiNoteRangeEnd

RECURSIVE BinarySearchSkipping(_, _, _, _)
BinarySearchSkipping(instrumentData, low, high, midiNoteNumber) ==
    IF low > high THEN 0
    ELSE LET mid == (low + high) \div 2
             currentNoteData == instrumentData[mid]
         IN  IF InRange(currentNoteData, midiNoteNumber) THEN mid
             ELSE IF midiNoteNumber < currentNoteData.midiNoteRangeStart
                  THEN BinarySearchSkipping(instrumentData, low, mid - 1, midiNoteNumber)
                  ELSE BinarySearchSkipping(instrumentData, mid + 2, high, midiNoteNumber)

\* The while loop: the index found, or 0 when low passes high.
RECURSIVE BinarySearch(_, _, _, _)
BinarySearch(instrumentData, low, high, midiNoteNumber) ==
    IF low > high THEN 0
    ELSE LET mid == (low + high) \div 2
             currentNoteData == instrumentData[mid]
         IN  IF InRange(currentNoteData, midiNoteNumber) THEN mid
             ELSE IF midiNoteNumber < currentNoteData.midiNoteRangeStart
                  THEN BinarySearch(instrumentData, low, mid - 1, midiNoteNumber)
                  ELSE BinarySearch(instrumentData, mid + 1, high, midiNoteNumber)

ExtendDownUnchanged(noteData) == noteData

ExtendDown(noteData) == [noteData EXCEPT !.midiNoteRangeStart = MinMidiNote]

ExtendUp(noteData) == [noteData EXCEPT !.midiNoteRangeEnd = MaxMidiNote]

RECURSIVE ClosestFromLatest(_, _, _, _)
ClosestFromLatest(instrumentData, i, closest, midiNoteNumber) ==
    IF i > Len(instrumentData) THEN closest
    ELSE LET minDiff == Abs(midiNoteNumber - closest.midiNoteNumber)
             currentDiff == Abs(midiNoteNumber - instrumentData[i].midiNoteNumber)
         IN  ClosestFromLatest(instrumentData, i + 1,
                               IF currentDiff <= minDiff THEN instrumentData[i] ELSE closest,
                               midiNoteNumber)

\* The fallback for loop from index i on, with the closest entry so far.
RECURSIVE ClosestFrom(_, _, _, _)
ClosestFrom(instrumentData, i, closest, midiNoteNumber) ==
    IF i > Len(instrumentData) THEN closest
    ELSE LET minDiff == Abs(midiNoteNumber - closest.midiNoteNumber)
             currentDiff == Abs(midiNoteNumber - instrumentData[i].midiNoteNumber)
         IN  ClosestFrom(instrumentData, i + 1,
                         IF currentDiff < minDiff THEN instrumentData[i] ELSE closest,
                         midiNoteNumber)

NoNoteData == NoteData(0, 0, 0, 0, 0, Undefined, Undefined)

Thrown(kind) == [threw |-> TRUE, error |-> kind, warned |-> FALSE, data |-> NoNoteData]

Returned(noteData, warn) ==
    [threw |-> FALSE, error |-> "", warned |-> warn, data |-> noteData]

UnknownInstrument == "TypeError: no such instrument"

EmptyInstrument == "Error: instrument data array is empty"

\* The two checks before the search: the error thrown, or "".  instrumentData
\* is the catalog's own array, or the function inherited under that name
\* (length 0), or undefined.
LookupError(instrumentsData, instrumentAudio) ==
    IF instrumentsData = Undefined THEN UnknownInstrument
    ELSE IF instrumentAudio \in DOMAIN Val(instrumentsData)
         THEN IF Len(Val(instrumentsData)[instrumentAudio]) = 0
              THEN EmptyInstrument
              ELSE ""
    ELSE IF instrumentAudio \in InheritedNames THEN EmptyInstrument
    ELSE UnknownInstrument

getClosestSpriteNoteData(instrumentsData, instrumentAudio, midiNoteNumber) ==
    IF LookupError(instrumentsData, instrumentAudio) # ""
    THEN Thrown(LookupError(instrumentsData, instrumentAudio))
    ELSE LET instrumentData == Val(instrumentsData)[instrumentAudio]
             n == Len(instrumentData)
             found == BinarySearch(instrumentData, 1, n, midiNoteNumber)
         IN  IF found # 0 THEN Returned(instrumentData[found], FALSE)
             ELSE IF midiNoteNumber < instrumentData[1].midiNoteRangeStart
                  THEN Returned(ExtendDown(instrumentData[1]), FALSE)
             ELSE IF midiNoteNumber > instrumentData[n].midiNoteRangeEnd
                  THEN Returned(ExtendUp(instrumentData[n]), FALSE)
             ELSE Returned(ClosestFrom(instrumentData, 2, instrumentData[1],
                                       midiNoteNumber), TRUE)

CatalogWidenedInPlace(instrumentsData, instrumentAudio, midiNoteNumber) ==
    IF LookupError(instrumentsData, instrumentAudio) # "" THEN instrumentsData
    ELSE LET instrumentData == Val(instrumentsData)[instrumentAudio]
             n == Len(instrumentData)
         IN  IF BinarySearch(instrumentData, 1, n, midiNoteNumber) # 0
             THEN instrumentsData
             ELSE IF midiNoteNumber < instrumentData[1].midiNoteRangeStart
                  THEN Some([Val(instrumentsData) EXCEPT
                                ![instrumentAudio][1] = ExtendDown(@)])
             ELSE IF midiNoteNumber > instrumentData[n].midiNoteRangeEnd
                  THEN Some([Val(instrumentsData) EXCEPT
                                ![instrumentAudio][n] = ExtendUp(@)])
             ELSE instrumentsData

\* The catalog after a call of getClosestSpriteNoteData: the function only
\* reads it, and the widened descriptors are new objects built with a spread.
CatalogAfterResolve(instrumentsData, instrumentAudio, midiNoteNumber) == instrumentsData

-----------------------------------------------------------------------------
(* The resolver on its own: every generated catalog, every pitch *)

\* The last custom event handled: "on" or "off", with the instrument, pitch,
\* uuid and noteDuration of its detail as dispatched (before any default
\* applies).
Event(type, instrumentAudio, midiNoteNumber, uuid, noteDuration) ==
    [type |-> type, instrumentAudio |-> instrumentAudio,
     midiNoteNumber |-> midiNoteNumber, uuid |-> uuid, noteDuration |-> noteDuration]

NoEvent == Event("none", "", 0, Undefined, Undefined)

OffEvent(uuid) == Event("off", "", 0, Some(uuid), Undefined)

\* again: the result of calling a second time with the same arguments.
NotResolved ==
    [called |-> FALSE, instrumentAudio |-> "", midiNoteNumber |-> 0,
     result |-> Returned(NoNoteData, FALSE), again |-> Undefined]

InitResolve ==
    /\ webNoteAudioContext = "ctx"
    /\ audioSpriteInstrumentsData \in {Some(c) : c \in ResolverCatalogs}
    /\ audioSpriteBuffer = "buffer"
    /\ webNoteAudioBuffers = << >>
    /\ nodes = << >>
    /\ currentTime = 0
    /\ loader = [pc |-> "ready", audioSpriteData |-> audioSpriteInstrumentsData]
    /\ listening = TRUE
    /\ readyEvents = 1
    /\ console = << >>
    /\ thrown = FALSE
    /\ lastEvent = NoEvent
    /\ resolved = NotResolved

\* The first call of a run.
Resolve(instrumentAudio, midiNoteNumber) ==
    /\ ~resolved.called
    /\ resolved' = [called |-> TRUE, instrumentAudio |-> instrumentAudio,
                    midiNoteNumber |-> midiNoteNumber,
                    result |-> getClosestSpriteNoteData(audioSpriteInstrumentsData,
                                                        instrumentAudio, midiNoteNumber),
                    again |-> Undefined]
    /\ audioSpriteInstrumentsData' =
           CatalogAfterResolve(audioSpriteInstrumentsData, instrumentAudio, midiNoteNumber)
    /\ UNCHANGED <<webNoteAudioContext, audioSpriteBuffer,
                   webNoteAudioBuffers, nodes, currentTime, loader, listening,
                   readyEvents, console, thrown, lastEvent>>

\* A second call with the arguments of the first, on the catalog as the first
\* call left it.
ResolveAgain ==
    /\ resolved.called
    /\ resolved.again = Undefined
    /\ resolved' = [resolved EXCEPT !.again =
                       Some(getClosestSpriteNoteData(audioSpriteInstrumentsData,
                                                     resolved.instrumentAudio,
                                                     resolved.midiNoteNumber))]
    /\ audioSpriteInstrumentsData' =
           CatalogAfterResolve(audioSpriteInstrumentsData, resolved.instrumentAudio,
                               resolved.midiNoteNumber)
    /\ UNCHANGED <<webNoteAudioContext, audioSpriteBuffer,
                   webNoteAudioBuffers, nodes, currentTime, loader, listening,
                   readyEvents, console, thrown, lastEvent>>

NextResolve ==
    \/ \E r \in ResolverRequests : Resolve(r[1], r[2])
    \/ ResolveAgain

SpecResolve == InitResolve /\ [][NextResolve]_vars

-----------------------------------------------------------------------------
(* The player: module state, initWebNotePlayer, the two event handlers *)

\* The catalogs handed to initWebNotePlayer in the player runs.  The first
\* covers 0..127 contiguously; the second leaves a gap below, between and above
\* its ranges.  Each has an instrument whose array is empty.
ContiguousData ==
    [guitar |-> <<NoteData(40, 0, 43, 0, 400, Some(380), Some(390)),
                  NoteData(45, 44, 127, 500, 200, Undefined, Undefined)>>,
     silent |-> << >>]

GappedData ==
    [guitar |-> <<NoteData(60, 5, 60, 0, 400, Some(380), Some(390)),
                  NoteData(72, 70, 120, 500, 200, Undefined, Undefined)>>,
     silent |-> << >>]

PlayerCatalogs == {ContiguousData, GappedData}

\* The event details dispatched in the player runs.
Instruments == {"guitar", "silent", "nonexistent", "toString"}

Pitches == {0, 63, 127}

Uuids == {"", "a"}

UuidArgs == {Undefined} \cup {Some(u) : u \in Uuids}

\* The uuids of the note-off events dispatched.
OffUuids == Uuids \cup InheritedNames

DurationArgs == {Undefined, Some(50), Some(1000)}

\* noteVolume and noteDelay of a detail: both omitted, both given, or a delay
\* that puts the start time before time 0 of the audio clock.
VolumeDelayArgs ==
    {<<Undefined, Undefined>>, <<Some(100), Some(25)>>, <<Undefined, Some(-1000)>>}

\* The details of the note-on events dispatched: every combination for the
\* instrument that resolves and a start time that is valid.  A request that
\* fails in the lookup or at the start fails whatever its pitch and duration
\* are, so those are dispatched with one pitch and no duration.
OnDetails ==
    {d \in Instruments \X Pitches \X UuidArgs \X DurationArgs \X VolumeDelayArgs :
        (d[1] # "guitar" \/ d[5][2] = Some(-1000)) => (d[2] = 63 /\ d[4] = Undefined)}

NoBuffers == [u \in {} |-> 0]

Entry(level, text) == [level |-> level, text |-> text]

ContextError == Entry("error", "Error: The Audio Context was not initialized properly.")

UuidRequired ==
    Entry("error", "Error: a valid uuid must be supplied, if using undefined/infinite noteDuration")

GapWarning == Entry("warn", "MIDI note not found within any defined range")

NotActive == Entry("warn", "Attempted to stop non-existent note")

\* What setTargetAtTime and start throw for a negative time.
AudioGraphError == Entry("error", "RangeError: the time must be non-negative")

Init ==
    /\ webNoteAudioContext = "null"
    /\ audioSpriteInstrumentsData = Undefined
    /\ audioSpriteBuffer = "null"
    /\ webNoteAudioBuffers = NoBuffers
    /\ nodes = << >>
    /\ currentTime = 0
    /\ loader = [pc |-> "idle", audioSpriteData |-> Undefined]
    /\ listening = FALSE
    /\ readyEvents = 0
    /\ console = << >>
    /\ thrown = FALSE
    /\ lastEvent = NoEvent
    /\ resolved = NotResolved

\* The synchronous part: the argument checks, the context, the load begun.
initWebNotePlayer(urlGiven, audioSpriteData) ==
    /\ loader.pc = "idle"
    /\ IF ~urlGiven
       THEN /\ console' = <<Entry("error", "Error: audioSpriteUrl is not defined")>>
            /\ loader' = [pc |-> "failed", audioSpriteData |-> Undefined]
            /\ UNCHANGED webNoteAudioContext
       ELSE /\ webNoteAudioContext' = "ctx"
            /\ loader' = [pc |-> "loading", audioSpriteData |-> Some(audioSpriteData)]
            /\ UNCHANGED console
    /\ thrown' = FALSE
    /\ UNCHANGED <<audioSpriteInstrumentsData, audioSpriteBuffer, webNoteAudioBuffers,
                   nodes, currentTime, listening, readyEvents, lastEvent, resolved>>

\* loadAudioSpriteFromUrl resolves: the buffer is decoded, then the callback
\* installs the catalog, attaches the listeners and dispatches the ready event.
LoadResolved ==
    /\ loader.pc = "loading"
    /\ audioSpriteBuffer' = "buffer"
    /\ audioSpriteInstrumentsData' = loader.audioSpriteData
    /\ listening' = TRUE
    /\ readyEvents' = readyEvents + 1
    /\ loader' = [loader EXCEPT !.pc = "ready"]
    /\ UNCHANGED <<webNoteAudioContext, webNoteAudioBuffers, nodes, currentTime,
                   console, thrown, lastEvent, resolved>>

LoadRejectedButListening ==
    /\ loader.pc = "loading"
    /\ loader' = [loader EXCEPT !.pc = "failed"]
    /\ audioSpriteInstrumentsData' = loader.audioSpriteData
    /\ listening' = TRUE
    /\ readyEvents' = readyEvents + 1
    /\ UNCHANGED <<webNoteAudioContext, audioSpriteBuffer, webNoteAudioBuffers, nodes,
                   currentTime, console, thrown, lastEvent, resolved>>

\* loadAudioSpriteFromUrl rejects (fetch or decode failed): the callback never runs.
LoadRejected ==
    /\ loader.pc = "loading"
    /\ loader' = [loader EXCEPT !.pc = "failed"]
    /\ UNCHANGED <<webNoteAudioContext, audioSpriteInstrumentsData, audioSpriteBuffer,
                   webNoteAudioBuffers, nodes, currentTime, listening, readyEvents,
                   console, thrown, lastEvent, resolved>>

-----------------------------------------------------------------------------
(* webNotePlayerOn *)

IsLongNote(noteDuration, noteData) ==
    Gt(noteDuration, noteData.noteDuration) \/ noteDuration = Undefined

HasLoop(noteData) == noteData.loopStart # Undefined /\ noteData.loopEnd # Undefined

ClampedDurationRequested(noteDuration, noteData) == noteDuration

\* noteDuration after the if/else that configures the loop.
ClampedDuration(noteDuration, noteData) ==
    IF IsLongNote(noteDuration, noteData) /\ ~HasLoop(noteData)
    THEN Some(noteData.noteDuration)
    ELSE noteDuration

DetuneSemitones(midiNoteNumber, noteData) == midiNoteNumber - noteData.midiNoteNumber

Detune(midiNoteNumber, noteData) == (midiNoteNumber - noteData.midiNoteNumber) * 100

RegistersIdentified(noteDuration, uuid) == uuid # Undefined

\* The branch that stores the voice: undefined duration and a uuid.
Registers(noteDuration, uuid) == noteDuration = Undefined /\ uuid # Undefined

SetTarget(target, startTime, timeConstant) ==
    [target |-> target, startTime |-> startTime, timeConstant |-> timeConstant]

\* The source and gain pair as buffer.start leaves it.  duration is the third
\* argument of start (Undefined: play until stopped); fades are the pending
\* setTargetAtTime events of the gain; stopAt is the time given to stop().
Node(midiNoteNumber, noteData, isLongNote, noteDuration, noteVolume, noteStartTime) ==
    [loop |-> isLongNote /\ HasLoop(noteData),
     loopStart |-> IF isLongNote /\ HasLoop(noteData) THEN Val(noteData.loopStart) ELSE 0,
     loopEnd |-> IF isLongNote /\ HasLoop(noteData) THEN Val(noteData.loopEnd) ELSE 0,
     detune |-> Detune(midiNoteNumber, noteData),
     gain |-> noteVolume,
     when |-> noteStartTime,
     offset |-> noteData.noteStart,
     duration |-> IF noteDuration = Undefined THEN Undefined
                  ELSE Some(Val(noteDuration) + EXTRA_NOTE_DURATION),
     fades |-> IF noteDuration = Undefined THEN {}
               ELSE {SetTarget(0, noteStartTime + Val(noteDuration), GAIN_TIME_CONSTANT)},
     stopAt |-> Undefined]

\* gain.gain.setTargetAtTime(0, noteEndTime, ...) and buffer.start(
\* noteStartTime, ...) throw a RangeError for a negative time, before the
\* source is started.
StartThrows(noteStartTime, noteDuration) ==
    \/ noteStartTime < 0
    \/ noteDuration # Undefined /\ noteStartTime + Val(noteDuration) < 0

PropagatesErrors(log) == \E k \in 1..Len(log) : log[k].level = "error"

\* try { ... } catch (error) { console.error(error) }: whatever the body
\* logged as an error, nothing leaves webNotePlayerOn.
Propagates(log) == FALSE

\* The body of the try block: what is logged, the nodes and the registry after.
PlayNote(instrumentAudio, midiNoteNumber, uuid, durationArg, volumeArg, delayArg) ==
    LET unchanged(log) == [log |-> log, nodes |-> nodes, buffers |-> webNoteAudioBuffers]
        r == getClosestSpriteNoteData(audioSpriteInstrumentsData, instrumentAudio,
                                      midiNoteNumber)
        warnings == IF r.warned THEN <<GapWarning>> ELSE << >>
        given == Default(durationArg, DefaultNoteDuration)
        noteVolume == Val(Default(volumeArg, DefaultNoteVolume))
        noteDelay == Val(Default(delayArg, DefaultNoteDelay))
        isLongNote == IsLongNote(given, r.data)
        noteDuration == ClampedDuration(given, r.data)
        noteStartTime == currentTime + noteDelay
        node == Node(midiNoteNumber, r.data, isLongNote, noteDuration, noteVolume,
                     noteStartTime)
    IN  IF webNoteAudioContext = "null" THEN unchanged(<<ContextError>>)
        ELSE IF r.threw THEN unchanged(<<Entry("error", r.error)>>)
        ELSE IF noteDuration = Undefined /\ uuid = Undefined
             THEN unchanged(warnings \o <<UuidRequired>>)
        ELSE IF StartThrows(noteStartTime, noteDuration)
             THEN unchanged(warnings \o <<AudioGraphError>>)
        ELSE [log |-> warnings,
              nodes |-> Append(nodes, node),
              buffers |-> IF Registers(noteDuration, uuid)
                          THEN (Val(uuid) :> (Len(nodes) + 1)) @@ webNoteAudioBuffers
                          ELSE webNoteAudioBuffers]

\* The web-note-player-on listener: webNotePlayerOn on the event's detail, its
\* errors caught and logged.
webNotePlayerOn(instrumentAudio, midiNoteNumber, uuid, durationArg, volumeArg, delayArg) ==
    /\ listening
    /\ LET after == PlayNote(instrumentAudio, midiNoteNumber, uuid, durationArg,
                             volumeArg, delayArg)
       IN  /\ console' = after.log
           /\ nodes' = after.nodes
           /\ webNoteAudioBuffers' = after.buffers
           /\ thrown' = Propagates(after.log)
    /\ audioSpriteInstrumentsData' =
           IF webNoteAudioContext = "null" THEN audioSpriteInstrumentsData
           ELSE CatalogAfterResolve(audioSpriteInstrumentsData, instrumentAudio,
                                    midiNoteNumber)
    /\ lastEvent' = Event("on", instrumentAudio, midiNoteNumber, uuid, durationArg)
    /\ UNCHANGED <<webNoteAudioContext, audioSpriteBuffer,
                   currentTime, loader, listening, readyEvents, resolved>>

-----------------------------------------------------------------------------
(* webNotePlayerOff *)

\* webNoteAudioBuffers?.[uuid] is truthy: a stored voice, or an inherited
\* function.
IsActive(buffers, uuid) == uuid \in DOMAIN buffers \/ uuid \in InheritedNames

\* cancelScheduledValues(0), setTargetAtTime(0, now, ...), stop(now + ...).
FadeAndStop(node, now) ==
    [node EXCEPT !.fades = {SetTarget(0, now, GAIN_TIME_CONSTANT)},
                 !.stopAt = Some(now + EXTRA_NOTE_DURATION)]

Without(buffers, uuid) == [u \in (DOMAIN buffers) \ {uuid} |-> buffers[u]]

webNotePlayerOffStoppingAll(uuid) ==
    /\ listening
    /\ IF webNoteAudioContext = "null"
       THEN /\ console' = <<ContextError>>
            /\ thrown' = FALSE
            /\ UNCHANGED <<nodes, webNoteAudioBuffers>>
       ELSE IF IsActive(webNoteAudioBuffers, uuid)
       THEN IF uuid \in DOMAIN webNoteAudioBuffers
            THEN /\ nodes' = [nodes EXCEPT ![webNoteAudioBuffers[uuid]] =
                                  FadeAndStop(@, currentTime)]
                 /\ webNoteAudioBuffers' = Without(webNoteAudioBuffers, uuid)
                 /\ console' = << >>
                 /\ thrown' = FALSE
            ELSE /\ thrown' = TRUE
                 /\ console' = << >>
                 /\ UNCHANGED <<nodes, webNoteAudioBuffers>>
       ELSE /\ console' = <<NotActive>>
            /\ thrown' = FALSE
            /\ nodes' = [k \in 1..Len(nodes) |-> FadeAndStop(nodes[k], currentTime)]
            /\ UNCHANGED webNoteAudioBuffers
    /\ lastEvent' = OffEvent(uuid)
    /\ UNCHANGED <<webNoteAudioContext, audioSpriteInstrumentsData, audioSpriteBuffer,
                   currentTime, loader, listening, readyEvents, resolved>>

\* The web-note-player-off listener.  Nothing catches here: when the value
\* read under uuid is not a stored voice, its .gain is undefined and reading
\* .gain of that leaves the handler as a TypeError, before anything is done.
webNotePlayerOff(uuid) ==
    /\ listening
    /\ IF webNoteAudioContext = "null"
       THEN /\ console' = <<ContextError>>
            /\ thrown' = FALSE
            /\ UNCHANGED <<nodes, webNoteAudioBuffers>>
       ELSE IF IsActive(webNoteAudioBuffers, uuid)
       THEN IF uuid \in DOMAIN webNoteAudioBuffers
            THEN /\ nodes' = [nodes EXCEPT ![webNoteAudioBuffers[uuid]] =
                                  FadeAndStop(@, currentTime)]
                 /\ webNoteAudioBuffers' = Without(webNoteAudioBuffers, uuid)
                 /\ console' = << >>
                 /\ thrown' = FALSE
            ELSE /\ thrown' = TRUE
                 /\ console' = << >>
                 /\ UNCHANGED <<nodes, webNoteAudioBuffers>>
       ELSE /\ console' = <<NotActive>>
            /\ thrown' = FALSE
            /\ UNCHANGED <<nodes, webNoteAudioBuffers>>
    /\ lastEvent' = OffEvent(uuid)
    /\ UNCHANGED <<webNoteAudioContext, audioSpriteInstrumentsData, audioSpriteBuffer,
                   currentTime, loader, listening, readyEvents, resolved>>

-----------------------------------------------------------------------------
(* What the audio engine does with a started source *)

\* 2^(n/12) in thousandths, for n = 0..11 semitones.
SemitoneRatio == <<1000, 1059, 1122, 1189, 1260, 1335, 1414, 1498, 1587, 1682, 1782, 1888>>

\* 2^(semitones/12) in thousandths, for semitones >= 0.
RECURSIVE Pow2Twelfths(_)
Pow2Twelfths(semitones) ==
    IF semitones < 12 THEN SemitoneRatio[semitones + 1]
    ELSE 2 * Pow2Twelfths(semitones - 12)

\* The third argument of buffer.start counts seconds of buffer content, and
\* the source consumes buffer content at the rate 2^(detune/1200) set through
\* buffer.detune: the time the source plays for is the duration divided by
\* that rate.  (detune is a whole number of semitones times 100.)
PlayedFor(duration, detune) ==
    IF detune >= 0
    THEN (duration * 1000) \div Pow2Twelfths(detune \div 100)
    ELSE (duration * Pow2Twelfths((-detune) \div 100)) \div 1000

Earlier(a, b) ==
    IF a = Undefined THEN b
    ELSE IF b = Undefined THEN a
    ELSE IF Val(a) <= Val(b) THEN a ELSE b

\* When the source ends: its duration played out, or the time given to stop(),
\* whichever is first; Undefined when neither is set.
EndTime(node) ==
    Earlier(IF node.duration = Undefined THEN Undefined
            ELSE Some(node.when + PlayedFor(Val(node.duration), node.detune)),
            node.stopAt)

\* The state of a voice at time t.
VoiceState(node, t) ==
    IF EndTime(node) # Undefined /\ t >= Val(EndTime(node)) THEN "Stopped"
    ELSE IF t < node.when THEN "Scheduled"
    ELSE IF \E f \in node.fades : f.startTime <= t THEN "FadingOut"
    ELSE "Sounding"

Rank(state) ==
    CASE state = "Scheduled" -> 1
      [] state = "Sounding" -> 2
      [] state = "FadingOut" -> 3
      [] state = "Stopped" -> 4

-----------------------------------------------------------------------------
(* The audio clock *)

Tick ==
    /\ currentTime < MaxTicks * TickLength
    /\ currentTime' = currentTime + TickLength
    /\ UNCHANGED <<webNoteAudioContext, audioSpriteInstrumentsData, audioSpriteBuffer,
                   webNoteAudioBuffers, nodes, loader, listening, readyEvents,
                   console, thrown, lastEvent, resolved>>

Next ==
    \/ \E urlGiven \in BOOLEAN, audioSpriteData \in PlayerCatalogs :
          initWebNotePlayer(urlGiven, audioSpriteData)
    \/ LoadResolved
    \/ LoadRejected
    \/ /\ Len(nodes) < MaxNotes
       /\ \E d \in OnDetails : webNotePlayerOn(d[1], d[2], d[3], d[4], d[5][1], d[5][2])
    \/ \E uuid \in OffUuids : webNotePlayerOff(uuid)
    \/ Tick

Spec == Init /\ [][Next]_vars

-----------------------------------------------------------------------------
(* Several voices at once: the player after the ready event *)

\* The uuids of the events dispatched in these runs.
VoiceUuids == {"a", "b"}

\* The details of the note-on events dispatched in these runs: every one
\* resolves and carries a uuid; with and without a noteDuration.
VoiceDetails ==
    {"guitar"} \X {0, 63} \X {Some(u) : u \in VoiceUuids} \X {Undefined, Some(50)}

\* The state the load callback leaves: catalog installed, listeners attached,
\* ready event dispatched, nothing played yet.
InitVoices ==
    /\ webNoteAudioContext = "ctx"
    /\ audioSpriteInstrumentsData \in {Some(c) : c \in PlayerCatalogs}
    /\ audioSpriteBuffer = "buffer"
    /\ webNoteAudioBuffers = NoBuffers
    /\ nodes = << >>
    /\ currentTime = 0
    /\ loader = [pc |-> "ready", audioSpriteData |-> audioSpriteInstrumentsData]
    /\ listening = TRUE
    /\ readyEvents = 1
    /\ console = << >>
    /\ thrown = FALSE
    /\ lastEvent = NoEvent
    /\ resolved = NotResolved

NextVoices ==
    \/ /\ Len(nodes) < MaxVoices
       /\ \E d \in VoiceDetails :
              webNotePlayerOn(d[1], d[2], d[3], d[4], Undefined, Undefined)
    \/ \E uuid \in VoiceUuids \cup InheritedNames : webNotePlayerOff(uuid)
    \/ Tick

SpecVoices == InitVoices /\ [][NextVoices]_vars

-----------------------------------------------------------------------------
(* Vocabulary of the properties *)

\* p lies in the inclusive range of descriptor d.
Covers(d, p) == d.midiNoteRangeStart <= p /\ p <= d.midiNoteRangeEnd

\* Sorted, disjoint, and covering 0..127 without a gap.
Contiguous(data) ==
    /\ Len(data) > 0
    /\ SortedDisjoint(data)
    /\ data[1].midiNoteRangeStart = 0
    /\ data[Len(data)].midiNoteRangeEnd = 127
    /\ \A i \in 1..(Len(data) - 1) :
          data[i].midiNoteRangeEnd + 1 = data[i + 1].midiNoteRangeStart

\* The direct call recorded in resolved was on an instrument of the catalog.
ResolvedKnown ==
    /\ resolved.called
    /\ resolved.instrumentAudio \in DOMAIN Val(audioSpriteInstrumentsData)

ResolvedArray == Val(audioSpriteInstrumentsData)[resolved.instrumentAudio]

NoError(log) == \A k \in 1..Len(log) : log[k].level # "error"

Logged(log, entry) == \E k \in 1..Len(log) : log[k] = entry

\* The descriptor the resolver returns for a request, under the installed catalog.
DataFor(instrumentAudio, midiNoteNumber) ==
    getClosestSpriteNoteData(audioSpriteInstrumentsData, instrumentAudio,
                             midiNoteNumber).data

Resolvable(instrumentAudio) == LookupError(audioSpriteInstrumentsData, instrumentAudio) = ""

\* The step is webNotePlayerOn handling a note-on event whose detail has the
\* instrument, pitch, uuid and noteDuration of e.  (Every note-on step sets
\* lastEvent' to its detail, so "for every note-on step" is "for every step
\* that is OnStep(lastEvent')".)
OnStep(e) ==
    /\ e.type = "on"
    /\ \E volumeDelay \in VolumeDelayArgs :
          webNotePlayerOn(e.instrumentAudio, e.midiNoteNumber, e.uuid, e.noteDuration,
                          volumeDelay[1], volumeDelay[2])

\* The step is webNotePlayerOff handling a note-off event for the uuid of e.
OffStep(e) == e.type = "off" /\ webNotePlayerOff(Val(e.uuid))

\* The descriptor resolved for the event e.
EventData(e) == DataFor(e.instrumentAudio, e.midiNoteNumber)

\* The step started a source: the newest node is new.
StartedOne == Len(nodes') = Len(nodes) + 1

NewNode == nodes'[Len(nodes')]

-----------------------------------------------------------------------------
(* Properties of the resolver, under SpecResolve *)

\* C1: on an array that is sorted, disjoint and covers 0..127 contiguously,
\* the resolver returns, for every pitch p in 0..127, without an error or a
\* warning, a descriptor whose range contains p, and it is the one entry of
\* the array whose range contains p.
C1_ResolveContiguous ==
    (ResolvedKnown /\ Contiguous(ResolvedArray) /\ resolved.midiNoteNumber \in 0..127) =>
        /\ ~resolved.result.threw
        /\ ~resolved.result.warned
        /\ Covers(resolved.result.data, resolved.midiNoteNumber)
        /\ \E i \in 1..Len(ResolvedArray) :
              /\ resolved.result.data = ResolvedArray[i]
              /\ \A j \in 1..Len(ResolvedArray) :
                    Covers(ResolvedArray[j], resolved.midiNoteNumber) => j = i

\* A pitch resolved to the third entry of a contiguous three-entry array.
C1_Witness ==
    /\ ResolvedKnown
    /\ Contiguous(ResolvedArray)
    /\ Len(ResolvedArray) = 3
    /\ resolved.midiNoteNumber = 84
    /\ resolved.result.data = ResolvedArray[3]

\* C9: on a non-empty sorted array, a pitch below the first entry's
\* rangeStart gets the first entry with rangeStart 0 and every other field
\* as stored; a pitch above the last entry's rangeEnd gets the last entry
\* with rangeEnd 127 and every other field as stored; for a pitch in 0..127
\* the reported range contains the pitch.
C9_BoundaryWidening ==
    (ResolvedKnown /\ Len(ResolvedArray) > 0) =>
        LET p == resolved.midiNoteNumber
            first == ResolvedArray[1]
            last == ResolvedArray[Len(ResolvedArray)]
            got == resolved.result
        IN  /\ p < first.midiNoteRangeStart =>
                  /\ ~got.threw
                  /\ got.data = [first EXCEPT !.midiNoteRangeStart = 0]
                  /\ p \in 0..127 => Covers(got.data, p)
            /\ p > last.midiNoteRangeEnd =>
                  /\ ~got.threw
                  /\ got.data = [last EXCEPT !.midiNoteRangeEnd = 127]
                  /\ p \in 0..127 => Covers(got.data, p)

\* Pitch 0 under a first entry that starts at 5: reported from 0, stored from 5.
C9_Witness ==
    /\ ResolvedKnown
    /\ Len(ResolvedArray) = 2
    /\ ResolvedArray[1].midiNoteRangeStart = 5
    /\ resolved.midiNoteNumber = 0
    /\ resolved.result.data.midiNoteRangeStart = 0
    /\ resolved.result.data.midiNoteRangeEnd = ResolvedArray[1].midiNoteRangeEnd

-----------------------------------------------------------------------------
(* Properties of the player, under Spec *)

\* C2: after a note-on with a uuid and an undefined noteDuration that logs no
\* error, the registry holds the uuid, mapped to the voice just started, and
\* it keeps holding it until a note-off for that uuid is handled.
C2_SustainRegisters ==
    [][/\ (/\ lastEvent'.uuid # Undefined
           /\ lastEvent'.noteDuration = Undefined
           /\ OnStep(lastEvent')
           /\ NoError(console')) =>
                /\ Val(lastEvent'.uuid) \in DOMAIN webNoteAudioBuffers'
                /\ webNoteAudioBuffers'[Val(lastEvent'.uuid)] = Len(nodes')
       /\ \A u \in DOMAIN webNoteAudioBuffers :
             u \in DOMAIN webNoteAudioBuffers' \/ webNotePlayerOff(u)]_vars

\* A note-on with uuid "a" and no noteDuration was handled without an error:
\* the source plays for the default second plus the extra duration, and the
\* registry is empty.
C2_Witness ==
    /\ lastEvent = Event("on", "guitar", 0, Some("a"), Undefined)
    /\ console = << >>
    /\ Len(nodes) = 1
    /\ nodes[1].duration = Some(DefaultNoteDuration + EXTRA_NOTE_DURATION)
    /\ DOMAIN webNoteAudioBuffers = {}

C4_UuidRequired ==
    [][(/\ lastEvent'.noteDuration = Undefined
        /\ lastEvent'.uuid \in {Undefined, Some("")}
        /\ Resolvable(lastEvent'.instrumentAudio)
        /\ OnStep(lastEvent')) =>
            /\ Logged(console', UuidRequired)
            /\ UNCHANGED <<nodes, webNoteAudioBuffers>>]_vars

\* A note-on with neither uuid nor noteDuration was handled: nothing was
\* logged and a source was started.
C4_Witness ==
    /\ lastEvent = Event("on", "guitar", 0, Undefined, Undefined)
    /\ console = << >>
    /\ Len(nodes) = 1
    /\ nodes[1].fades # {}

\* C5: a note-on in sustain mode (noteDuration undefined, or longer than the
\* descriptor's noteDuration with both loop points defined) that logs no
\* error starts a source that loops between the descriptor's loop points,
\* has no stop time and no fade scheduled, and is registered under the uuid.
C5_SustainMode ==
    [][(/\ Resolvable(lastEvent'.instrumentAudio)
        /\ \/ lastEvent'.noteDuration = Undefined
           \/ /\ Gt(lastEvent'.noteDuration, EventData(lastEvent').noteDuration)
              /\ HasLoop(EventData(lastEvent'))
        /\ OnStep(lastEvent')
        /\ NoError(console')) =>
            /\ StartedOne
            /\ NewNode.loop
            /\ Some(NewNode.loopStart) = EventData(lastEvent').loopStart
            /\ Some(NewNode.loopEnd) = EventData(lastEvent').loopEnd
            /\ NewNode.duration = Undefined
            /\ NewNode.stopAt = Undefined
            /\ NewNode.fades = {}
            /\ lastEvent'.uuid # Undefined
            /\ Val(lastEvent'.uuid) \in DOMAIN webNoteAudioBuffers'
            /\ webNoteAudioBuffers'[Val(lastEvent'.uuid)] = Len(nodes')]_vars

\* A note-on of 10 s on a descriptor of 4 s with loop points was handled: the
\* source loops, and it has a fade scheduled, a duration and no registry entry.
C5_Witness ==
    /\ lastEvent = Event("on", "guitar", 0, Some("a"), Some(1000))
    /\ Len(nodes) = 1
    /\ nodes[1].loop
    /\ nodes[1].duration = Some(1000 + EXTRA_NOTE_DURATION)
    /\ nodes[1].fades = {SetTarget(0, nodes[1].when + 1000, GAIN_TIME_CONSTANT)}
    /\ DOMAIN webNoteAudioBuffers = {}

\* C6: a note-on with a defined noteDuration leaves the registry as it was,
\* with or without a uuid; and every voice the registry holds was started
\* with no stop time, which only an undefined noteDuration does.
C6_FiniteNotRegistered ==
    /\ [][(lastEvent'.noteDuration # Undefined /\ OnStep(lastEvent')) =>
              UNCHANGED webNoteAudioBuffers]_vars
    /\ [](\A u \in DOMAIN webNoteAudioBuffers :
             nodes[webNoteAudioBuffers[u]].duration = Undefined)

\* A note of 0.5 s with uuid "a" was started and the registry is empty.
C6_Witness ==
    /\ lastEvent = Event("on", "guitar", 63, Some("a"), Some(50))
    /\ Len(nodes) = 1
    /\ nodes[1].duration = Some(50 + EXTRA_NOTE_DURATION)
    /\ DOMAIN webNoteAudioBuffers = {}

\* C7: a note-off for a uuid the registry does not hold logs the "not
\* active" warning and nothing else, lets no exception escape, and leaves the
\* registry and every source and gain as they were.
C7_OffNotActive ==
    [][(/\ lastEvent'.type = "off"
        /\ Val(lastEvent'.uuid) \notin DOMAIN webNoteAudioBuffers
        /\ OffStep(lastEvent')) =>
            /\ console' = <<NotActive>>
            /\ ~thrown'
            /\ UNCHANGED <<nodes, webNoteAudioBuffers>>]_vars

\* A note-off for "toString", which the registry does not hold, was handled:
\* no warning was logged and an exception left the handler.
C7_Witness ==
    /\ lastEvent = OffEvent("toString")
    /\ "toString" \notin DOMAIN webNoteAudioBuffers
    /\ console = << >>
    /\ thrown

\* C8: the resolver throws the unknown-instrument error for a name the
\* catalog does not hold and the empty-array error for a name whose array is
\* empty; a note-on that meets either logs it, starts no source and leaves
\* the registry as it was.
C8_ResolverErrors ==
    [][(~Resolvable(lastEvent'.instrumentAudio) /\ OnStep(lastEvent')) =>
          LET catalog == Val(audioSpriteInstrumentsData)
              i == lastEvent'.instrumentAudio
              r == getClosestSpriteNoteData(audioSpriteInstrumentsData, i,
                                            lastEvent'.midiNoteNumber)
          IN  /\ r.threw
              /\ console' = <<Entry("error", r.error)>>
              /\ UNCHANGED <<nodes, webNoteAudioBuffers>>
              /\ i \notin DOMAIN catalog => r.error = UnknownInstrument
              /\ (i \in DOMAIN catalog /\ Len(catalog[i]) = 0) =>
                    r.error = EmptyInstrument]_vars

\* A note-on for "toString", which the catalog does not hold, was refused
\* with the empty-array error.
C8_Witness ==
    /\ lastEvent.type = "on"
    /\ lastEvent.instrumentAudio = "toString"
    /\ "toString" \notin DOMAIN Val(audioSpriteInstrumentsData)
    /\ console = <<Entry("error", EmptyInstrument)>>
    /\ nodes = << >>
    /\ DOMAIN webNoteAudioBuffers = {}

\* C10: the detune of every source a note-on starts is the requested pitch
\* minus the midiNoteNumber of the descriptor resolved for it, times 100,
\* whichever way the resolver found the descriptor.
C10_Detune ==
    [][(OnStep(lastEvent') /\ StartedOne) =>
          NewNode.detune =
              (lastEvent'.midiNoteNumber - EventData(lastEvent').midiNoteNumber) * 100]_vars

\* Pitch 63 in the gap of the gapped catalog, played from the entry sampled
\* at 60: the fallback warned and the source is detuned by +300 cents.
C10_Witness ==
    /\ audioSpriteInstrumentsData = Some(GappedData)
    /\ lastEvent.type = "on"
    /\ lastEvent.midiNoteNumber = 63
    /\ console = <<GapWarning>>
    /\ Len(nodes) = 1
    /\ nodes[1].detune = 300
    /\ nodes[1].offset = GappedData.guitar[1].noteStart

-----------------------------------------------------------------------------
(* Properties of the player, continued *)

\* C11: when the resolved descriptor lacks a loop point, a note-on that starts
\* a source schedules it with the requested duration if that does not exceed
\* the descriptor's noteDuration and with the descriptor's noteDuration
\* otherwise: the source does not loop, the fade is at start + that duration
\* (so no later than start + the descriptor's noteDuration) and start() gets
\* that duration plus the extra duration.
C11_FiniteClamp ==
    [][(OnStep(lastEvent') /\ StartedOne /\ ~HasLoop(EventData(lastEvent'))) =>
          LET requested == Val(Default(lastEvent'.noteDuration, DefaultNoteDuration))
              segment == EventData(lastEvent').noteDuration
              effective == IF requested > segment THEN segment ELSE requested
          IN  /\ ~NewNode.loop
              /\ NewNode.fades =
                     {SetTarget(0, NewNode.when + effective, GAIN_TIME_CONSTANT)}
              /\ NewNode.duration = Some(effective + EXTRA_NOTE_DURATION)
              /\ \A f \in NewNode.fades : f.startTime <= NewNode.when + segment]_vars

\* A note of 10 s on the descriptor of 2 s without loop points: scheduled as 2 s.
C11_Witness ==
    /\ audioSpriteInstrumentsData = Some(ContiguousData)
    /\ lastEvent = Event("on", "guitar", 63, Undefined, Some(1000))
    /\ Len(nodes) = 1
    /\ ~nodes[1].loop
    /\ nodes[1].fades = {SetTarget(0, nodes[1].when + 200, GAIN_TIME_CONSTANT)}
    /\ nodes[1].duration = Some(200 + EXTRA_NOTE_DURATION)

-----------------------------------------------------------------------------
(* Properties of the resolver, continued, under SpecResolve *)

C17_GapFallback ==
    resolved.called =>
        LET p == resolved.midiNoteNumber
            got == resolved.result
            known == ResolvedKnown /\ Len(ResolvedArray) > 0
            inGap == /\ known
                     /\ \A j \in 1..Len(ResolvedArray) : ~Covers(ResolvedArray[j], p)
                     /\ p >= ResolvedArray[1].midiNoteRangeStart
                     /\ p <= ResolvedArray[Len(ResolvedArray)].midiNoteRangeEnd
            distance(j) == Abs(p - ResolvedArray[j].midiNoteNumber)
        IN  /\ got.warned <=> inGap
            /\ inGap =>
                  /\ ~got.threw
                  /\ \E i \in 1..Len(ResolvedArray) :
                        /\ got.data = ResolvedArray[i]
                        /\ \A j \in 1..Len(ResolvedArray) :
                              /\ distance(j) >= distance(i)
                              /\ j < i => distance(j) > distance(i)

\* Pitch 63 in the gap between an entry sampled at 43 and one sampled at 83,
\* both 20 semitones away: the resolver warned and returned the first.
C17_Witness ==
    /\ ResolvedKnown
    /\ Len(ResolvedArray) = 2
    /\ ResolvedArray[1].midiNoteNumber = 43
    /\ ResolvedArray[2].midiNoteNumber = 83
    /\ resolved.midiNoteNumber = 63
    /\ resolved.result.warned
    /\ resolved.result.data = ResolvedArray[1]

-----------------------------------------------------------------------------
(* Properties of the voices over time, under Spec *)

\* The note-on recorded in lastEvent had a uuid and no noteDuration, resolved
\* to a descriptor with loop points and was handled without an error: the
\* newest source is its voice, and no note-off has been handled since.
SustainedVoice ==
    /\ lastEvent.type = "on"
    /\ lastEvent.uuid # Undefined
    /\ lastEvent.noteDuration = Undefined
    /\ NoError(console)
    /\ Len(nodes) > 0
    /\ HasLoop(EventData(lastEvent))

\* C18: every voice moves only forward through Scheduled, Sounding,
\* FadingOut, Stopped, whatever step is taken (a note-off included); it is
\* scheduled to sound at the current time plus the delay; its fade does not
\* begin before its start; and it does not end before its fade has begun
\* and the extra duration has passed.
C18_ForwardOnly ==
    /\ [][\A k \in 1..Len(nodes) :
             Rank(VoiceState(nodes'[k], currentTime')) >=
                 Rank(VoiceState(nodes[k], currentTime))]_vars
    /\ [][\A volumeDelay \in VolumeDelayArgs :
             (/\ lastEvent'.type = "on"
              /\ webNotePlayerOn(lastEvent'.instrumentAudio, lastEvent'.midiNoteNumber,
                                 lastEvent'.uuid, lastEvent'.noteDuration,
                                 volumeDelay[1], volumeDelay[2])
              /\ StartedOne) =>
                 NewNode.when = currentTime + Val(Default(volumeDelay[2], 0))]_vars
    /\ [](\A k \in 1..Len(nodes) :
             /\ \A f \in nodes[k].fades : nodes[k].when <= f.startTime
             /\ EndTime(nodes[k]) # Undefined =>
                   \E f \in nodes[k].fades :
                       f.startTime + EXTRA_NOTE_DURATION <= Val(EndTime(nodes[k])))

\* A voice has ended although its fade, scheduled for later, has not begun.
C18_Witness ==
    \E k \in 1..Len(nodes) :
        /\ VoiceState(nodes[k], currentTime) = "Stopped"
        /\ nodes[k].when <= currentTime
        /\ nodes[k].fades # {}
        /\ \A f \in nodes[k].fades : f.startTime > currentTime

C20_EventualStop ==
    /\ [](\A k \in 1..Len(nodes) :
             nodes[k].duration # Undefined =>
                LET effective == Val(nodes[k].duration) - EXTRA_NOTE_DURATION
                    fadeStart == nodes[k].when + effective
                    hardStop == fadeStart + EXTRA_NOTE_DURATION
                IN  /\ nodes[k].fades = {SetTarget(0, fadeStart, GAIN_TIME_CONSTANT)}
                    /\ fadeStart < hardStop
                    /\ EndTime(nodes[k]) = Some(hardStop)
                    /\ currentTime >= fadeStart =>
                          VoiceState(nodes[k], currentTime) \in {"FadingOut", "Stopped"}
                    /\ currentTime >= hardStop <=>
                          VoiceState(nodes[k], currentTime) = "Stopped")
    /\ [][(/\ SustainedVoice
            /\ lastEvent'.uuid = lastEvent.uuid
            /\ OffStep(lastEvent')) =>
                /\ nodes'[Len(nodes)].fades =
                       {SetTarget(0, currentTime, GAIN_TIME_CONSTANT)}
                /\ EndTime(nodes'[Len(nodes)]) =
                       Some(currentTime + EXTRA_NOTE_DURATION)]_vars

\* A note of 0.5 s, played 18 semitones above its sample, has ended at the
\* time its fade begins.
C20_Witness ==
    /\ audioSpriteInstrumentsData = Some(ContiguousData)
    /\ lastEvent = Event("on", "guitar", 63, Undefined, Some(50))
    /\ Len(nodes) = 1
    /\ nodes[1].detune = 1800
    /\ nodes[1].fades = {SetTarget(0, nodes[1].when + 50, GAIN_TIME_CONSTANT)}
    /\ Val(EndTime(nodes[1])) < nodes[1].when + 50

-----------------------------------------------------------------------------
(* The binary search against a linear scan, under SpecResolve *)

\* The entries of data whose range contains pitch p, found by looking at
\* every entry in turn.
LinearScan(data, p) == {i \in 1..Len(data) : Covers(data[i], p)}

\* C22: on a non-empty array sorted by range start with ranges that do not
\* overlap (gaps allowed anywhere), the resolver returns a descriptor for
\* every integer pitch; when a linear scan finds an entry whose range
\* contains the pitch, the resolver returns that entry, unwidened and
\* without a warning; and when the scan finds none, it returns the first
\* entry widened down, the last entry widened up, or an entry of the array
\* with a warning.
C22_SearchAgreesWithScan ==
    (ResolvedKnown /\ Len(ResolvedArray) > 0 /\ SortedDisjoint(ResolvedArray)) =>
        LET hits == LinearScan(ResolvedArray, resolved.midiNoteNumber)
            n == Len(ResolvedArray)
            data == resolved.result.data
        IN  /\ ~resolved.result.threw
            /\ hits # {} =>
                  /\ \A i \in hits : data = ResolvedArray[i]
                  /\ ~resolved.result.warned
            /\ hits = {} =>
                  \/ /\ data = ExtendDown(ResolvedArray[1])
                     /\ ~resolved.result.warned
                  \/ /\ data = ExtendUp(ResolvedArray[n])
                     /\ ~resolved.result.warned
                  \/ /\ \E i \in 1..n : data = ResolvedArray[i]
                     /\ resolved.result.warned

\* An array of three ranges with a gap before, between and after them: the
\* pitch lies in the last range, which the search reaches after looking at
\* the middle entry, and the last entry is returned.
C22_Witness ==
    /\ ResolvedKnown
    /\ Len(ResolvedArray) = 3
    /\ SortedDisjoint(ResolvedArray)
    /\ ResolvedArray[1].midiNoteRangeStart > 0
    /\ ResolvedArray[1].midiNoteRangeEnd + 1 < ResolvedArray[2].midiNoteRangeStart
    /\ ResolvedArray[2].midiNoteRangeEnd + 1 < ResolvedArray[3].midiNoteRangeStart
    /\ ResolvedArray[3].midiNoteRangeEnd < 127
    /\ LinearScan(ResolvedArray, resolved.midiNoteNumber) = {3}
    /\ resolved.result = Returned(ResolvedArray[3], FALSE)

-----------------------------------------------------------------------------
(* Properties of several voices, under SpecVoices *)

\* No entry of the registry leads to the source at index k.
Unreachable(buffers, k) == \A u \in DOMAIN buffers : buffers[u] # k

C23_OffFrame ==
    [][OffStep(lastEvent') =>
          LET uuid == Val(lastEvent'.uuid)
          IN  /\ Len(nodes') = Len(nodes)
              /\ currentTime' = currentTime
              /\ DOMAIN webNoteAudioBuffers' \subseteq DOMAIN webNoteAudioBuffers
              /\ \A u \in (DOMAIN webNoteAudioBuffers) \ {uuid} :
                    /\ u \in DOMAIN webNoteAudioBuffers'
                    /\ webNoteAudioBuffers'[u] = webNoteAudioBuffers[u]
              /\ \A k \in 1..Len(nodes) :
                    \/ nodes'[k] = nodes[k]
                    \/ /\ uuid \in DOMAIN webNoteAudioBuffers
                       /\ webNoteAudioBuffers[uuid] = k
                       /\ [nodes'[k] EXCEPT !.fades = nodes[k].fades,
                                            !.stopAt = nodes[k].stopAt] = nodes[k]]_vars

\* A note-off for "a" has been handled while two voices, one started with a
\* noteDuration of 0.5 s and one without a noteDuration, were before their
\* fades: neither has a stop time, and each has the one fade it was started
\* with.
C23_Witness ==
    /\ lastEvent = OffEvent("a")
    /\ console = <<NotActive>>
    /\ Len(nodes) = 2
    /\ nodes[1].duration = Some(50 + EXTRA_NOTE_DURATION)
    /\ nodes[2].duration = Some(DefaultNoteDuration + EXTRA_NOTE_DURATION)
    /\ \A k \in 1..2 :
          /\ VoiceState(nodes[k], currentTime) = "Sounding"
          /\ nodes[k].stopAt = Undefined
          /\ nodes[k].fades =
                 {SetTarget(0, nodes[k].when + Val(nodes[k].duration) - EXTRA_NOTE_DURATION,
                            GAIN_TIME_CONSTANT)}

=============================================================================
